---- MODULE Spec2Model ----
(***************************************************************************)
(* Verification model of src/index.tsx: the mock backend `apiService`      *)
(* (localStorage / sessionStorage), and the App component's login,         *)
(* reminder and notification logic.                                        *)
(*                                                                         *)
(* Time is Date.now() in milliseconds.  Every apiService method first      *)
(* awaits _delay(ms) (a setTimeout) and then runs the rest of its body in  *)
(* one uninterrupted turn of the event loop, so a call is modelled as an   *)
(* entry of `pending` (its timer) plus one atomic resolve step that fires  *)
(* once the timer is due.  Timers may fire late, never early.              *)
(***************************************************************************)
EXTENDS Integers, Sequences, FiniteSets, TLC

VARIABLES
    users,                \* localStorage 'users' (parsed): mobileNumber -> user record
    sessionUser,          \* sessionStorage 'currentUser'
    reminded,             \* ids i with sessionStorage 'reminded_<i>' set
    now,                  \* Date.now()
    pending,              \* timers of calls in flight, in the order they were started
    ret,                  \* the value returned by the call the last step resolved
    authStatus,           \* App state
    currentUser,          \* App state (the logged-in user's mobile number)
    currentPage,          \* App state
    previousPage,         \* App state
    notifications,        \* App state
    reminderAppointment,  \* App state: <<>> is null, <<a>> is appointment a
    isLoading,            \* LoginPage / CreateAccountPage isLoading of the mounted instance
    schedulingPage,       \* state of the mounted SchedulingPage instance
    chatbot               \* the chatbot modal and the state of its Chatbot instance

storeVars == <<users, sessionUser, reminded>>
appVars == <<authStatus, currentUser, currentPage, previousPage, notifications,
             reminderAppointment, isLoading>>
pageVars == <<schedulingPage, chatbot>>
vars == <<users, sessionUser, reminded, now, pending, ret, authStatus, currentUser,
          currentPage, previousPage, notifications, reminderAppointment, isLoading,
          schedulingPage, chatbot>>

----------------------------------------------------------------------------
(* Bounds of the model *)

MaxTicks == 4          \* clock instants after the first one
MaxPending == 2        \* calls / timers in flight at once
MaxAppointments == 2   \* appointments stored per user
MaxSends == 2          \* requests one Chatbot instance sends to the model

----------------------------------------------------------------------------
(* Program constants: the _delay of each apiService method, in ms *)

LoginDelay == 1000
CreateAccountDelay == 1500
GetAppointmentsDelay == 500
BookAppointmentDelay == 1000
UpdateAppointmentStatusDelay == 500
GetPatientDetailsDelay == 800
UpdatePatientDetailsDelay == 1000
GetAnalyticsDataDelay == 1200
NotificationTimeout == 3000

(* The clock is observed on a grid of one second: every delay is rounded  *)
(* up to the grid, which is a timer firing late.                          *)
Quantum == LoginDelay
MsPerDay == 24 * 60 * 60 * 1000
(* The first instant lies shortly before the midnight that starts day 1. *)
StartNow == MsPerDay - 3 * Quantum
MaxNow == StartNow + MaxTicks * Quantum
Instants == {StartNow + k * Quantum : k \in 0..MaxTicks}

----------------------------------------------------------------------------
(* Values *)

NoUser == "null"                  \* sessionStorage.getItem(...) === null
DefaultMobile == "1234567890"
OtherMobile == "9876543210"
Mobiles == {DefaultMobile, OtherMobile}
Passwords == {"password", "secret"}
(* What the login form is submitted with: the right password, a wrong one, *)
(* and a number that has an account only once one is created.             *)
Credentials ==
    {<<DefaultMobile, "password">>, <<DefaultMobile, "secret">>, <<OtherMobile, "password">>}

NoDate == -1                      \* the date string ''
NoStatus == "undefined"           \* an Appointment without the optional status field
Dates == {1, 2}                   \* date strings, as the day they name

Therapies == {"KARAMA", "ENEMA"}  \* names of ALL_THERAPIES the model selects from
Days == {2}                       \* days of the calendar grid
AheadOfUTC == {TRUE}              \* the browser's time zone: local time is ahead of UTC
Times == {"8:00am"}               \* time slots, '' is the unset time
Ratings == {5}                    \* stars of StarRating, 0 is the unset rating

StatusRank(s) == CASE s = "upcoming" -> 0 [] s = "confirmed" -> 1 [] OTHER -> 2

Remove(s, i) == SubSeq(s, 1, i - 1) \o SubSeq(s, i + 1, Len(s))

Ids(apps) == {apps[i].id : i \in 1..Len(apps)}

(* new Date(app.date.replace(/-/g, '/')): local midnight of the named day; *)
(* an Invalid Date for the empty string, which compares false to anything. *)
DateValid(date) == date # NoDate
AppDate(date) == date * MsPerDay

----------------------------------------------------------------------------
(* apiService *)

defaultUser ==
    [mobileNumber |-> DefaultMobile, password |-> "password",
     details |-> "Mr Guna", medicalHistory |-> "Sciatica",
     appointments |-> <<>>, analytics |-> "default"]

initializeDB == [m \in {DefaultMobile} |-> defaultUser]

(* Mutant: `user &&` is missing from the test, an unknown number logs in. *)
login_NoUserCheck(u, session, mobileNumber, password) ==
    IF mobileNumber \in DOMAIN u => u[mobileNumber].password = password
    THEN [session |-> mobileNumber, success |-> TRUE, user |-> mobileNumber]
    ELSE [session |-> session, success |-> FALSE, user |-> NoUser]

(* Mutant: the session marker is set before the password is looked at. *)
login_MarkOnFailure(u, session, mobileNumber, password) ==
    IF mobileNumber \in DOMAIN u /\ u[mobileNumber].password = password
    THEN [session |-> mobileNumber, success |-> TRUE, user |-> mobileNumber]
    ELSE [session |-> mobileNumber, success |-> FALSE, user |-> NoUser]

login(u, session, mobileNumber, password) ==
    IF mobileNumber \in DOMAIN u /\ u[mobileNumber].password = password
    THEN [session |-> mobileNumber, success |-> TRUE, user |-> mobileNumber]
    ELSE [session |-> session, success |-> FALSE, user |-> NoUser]

newUser(userData) ==
    [mobileNumber |-> userData.mobileNumber, password |-> userData.password,
     details |-> userData.name, medicalHistory |-> userData.pastConditions,
     appointments |-> <<>>, analytics |-> "new"]

(* Mutant: the test for an existing user is missing. *)
createAccount_Overwrite(u, session, userData) ==
    [users |-> [m \in DOMAIN u \cup {userData.mobileNumber} |->
                  IF m = userData.mobileNumber THEN newUser(userData) ELSE u[m]],
     session |-> userData.mobileNumber, success |-> TRUE,
     user |-> userData.mobileNumber]

createAccount(u, session, userData) ==
    IF userData.mobileNumber \in DOMAIN u
    THEN [users |-> u, session |-> session, success |-> FALSE, user |-> NoUser]
    ELSE [users |-> [m \in DOMAIN u \cup {userData.mobileNumber} |->
                        IF m = userData.mobileNumber THEN newUser(userData) ELSE u[m]],
          session |-> userData.mobileNumber, success |-> TRUE,
          user |-> userData.mobileNumber]

(* <<>> is null, <<d>> the object d; threw: users[mobileNumber] is        *)
(* undefined and `.details` raises.                                      *)
getPatientDetails(u, cu) ==
    IF cu = NoUser THEN [value |-> <<>>, threw |-> FALSE]
    ELSE IF cu \notin DOMAIN u THEN [value |-> <<>>, threw |-> TRUE]
    ELSE [value |-> <<[details |-> u[cu].details, medicalHistory |-> u[cu].medicalHistory]>>,
          threw |-> FALSE]

(* Mutant: details is written before the current user is looked at, for   *)
(* the default user.                                                       *)
updatePatientDetails_WriteFirst(u, cu, updatedDetails) ==
    IF cu = NoUser
    THEN [users |-> [u EXCEPT ![DefaultMobile].details = updatedDetails.name],
          value |-> FALSE, threw |-> FALSE]
    ELSE IF cu \notin DOMAIN u THEN [users |-> u, value |-> FALSE, threw |-> TRUE]
    ELSE [users |-> [u EXCEPT ![cu].details = updatedDetails.name,
                              ![cu].medicalHistory = updatedDetails.medicalHistory],
          value |-> TRUE, threw |-> FALSE]

(* Mutant: the user's record is written without the appointments stored   *)
(* for it.                                                                 *)
updatePatientDetails_DropAppointments(u, cu, updatedDetails) ==
    IF cu = NoUser THEN [users |-> u, value |-> FALSE, threw |-> FALSE]
    ELSE IF cu \notin DOMAIN u THEN [users |-> u, value |-> FALSE, threw |-> TRUE]
    ELSE [users |-> [u EXCEPT ![cu].details = updatedDetails.name,
                              ![cu].medicalHistory = updatedDetails.medicalHistory,
                              ![cu].appointments = <<>>],
          value |-> TRUE, threw |-> FALSE]

(* threw: users[mobileNumber] is undefined and `.details =` raises. *)
updatePatientDetails(u, cu, updatedDetails) ==
    IF cu = NoUser THEN [users |-> u, value |-> FALSE, threw |-> FALSE]
    ELSE IF cu \notin DOMAIN u THEN [users |-> u, value |-> FALSE, threw |-> TRUE]
    ELSE [users |-> [u EXCEPT ![cu].details = updatedDetails.name,
                              ![cu].medicalHistory = updatedDetails.medicalHistory],
          value |-> TRUE, threw |-> FALSE]

(* <<>> is null, <<"{}">> the empty object of `?.analytics || {}`. *)
getAnalyticsData(u, cu) ==
    IF cu = NoUser THEN <<>>
    ELSE IF cu \in DOMAIN u THEN <<u[cu].analytics>> ELSE <<"{}">>

Reverse(q) == [k \in 1..Len(q) |-> q[Len(q) + 1 - k]]

(* Mutant: the newest appointment first. *)
getAppointments_NewestFirst(u, cu) ==
    IF cu = NoUser THEN <<>>
    ELSE IF cu \in DOMAIN u THEN Reverse(u[cu].appointments) ELSE <<>>

getAppointments(u, cu) ==
    IF cu = NoUser THEN <<>>
    ELSE IF cu \in DOMAIN u THEN u[cu].appointments ELSE <<>>

newAppointmentWithMeta(appointment, t) ==
    [therapies |-> appointment.therapies, date |-> appointment.date,
     time |-> appointment.time, bookedAt |-> appointment.bookedAt,
     centerRating |-> appointment.centerRating,
     id |-> t, status |-> "upcoming"]

(* Mutant: unshift in place of push. *)
bookAppointment_Unshift(u, cu, appointment, t) ==
    IF cu = NoUser THEN [users |-> u, value |-> FALSE, threw |-> FALSE]
    ELSE IF cu \notin DOMAIN u THEN [users |-> u, value |-> FALSE, threw |-> TRUE]
    ELSE [users |-> [u EXCEPT ![cu].appointments =
                        <<newAppointmentWithMeta(appointment, t)>> \o @],
          value |-> TRUE, threw |-> FALSE]

(* Mutant: the record is read before the delay, when the call is made    *)
(* (the draft's bookedAt): what was stored since is not in it.            *)
bookAppointment_ReadBeforeDelay(u, cu, appointment, t) ==
    IF cu = NoUser THEN [users |-> u, value |-> FALSE, threw |-> FALSE]
    ELSE IF cu \notin DOMAIN u THEN [users |-> u, value |-> FALSE, threw |-> TRUE]
    ELSE [users |-> [u EXCEPT ![cu].appointments =
                        Append(SelectSeq(@, LAMBDA a : a.id <= appointment.bookedAt),
                               newAppointmentWithMeta(appointment, t))],
          value |-> TRUE, threw |-> FALSE]

(* Mutant: the collection is replaced by the new appointment alone. *)
bookAppointment_Replace(u, cu, appointment, t) ==
    IF cu = NoUser THEN [users |-> u, value |-> FALSE, threw |-> FALSE]
    ELSE IF cu \notin DOMAIN u THEN [users |-> u, value |-> FALSE, threw |-> TRUE]
    ELSE [users |-> [u EXCEPT ![cu].appointments =
                        <<newAppointmentWithMeta(appointment, t)>>],
          value |-> TRUE, threw |-> FALSE]

(* threw: users[mobileNumber] is undefined and `.appointments` raises. *)
bookAppointment(u, cu, appointment, t) ==
    IF cu = NoUser THEN [users |-> u, value |-> FALSE, threw |-> FALSE]
    ELSE IF cu \notin DOMAIN u THEN [users |-> u, value |-> FALSE, threw |-> TRUE]
    ELSE [users |-> [u EXCEPT ![cu].appointments =
                        Append(@, newAppointmentWithMeta(appointment, t))],
          value |-> TRUE, threw |-> FALSE]

(* findIndex: the least index whose id matches, 0 for -1. *)
findIndex(apps, appointmentId) ==
    IF \E i \in 1..Len(apps) : apps[i].id = appointmentId
    THEN CHOOSE i \in 1..Len(apps) :
            /\ apps[i].id = appointmentId
            /\ \A j \in 1..(i - 1) : apps[j].id # appointmentId
    ELSE 0

(* Mutant: the `=== -1` test is missing, the call reports success. *)
updateAppointmentStatus_NoNotFound(u, cu, appointmentId, status) ==
    IF cu = NoUser THEN [users |-> u, value |-> FALSE]
    ELSE IF cu \notin DOMAIN u THEN [users |-> u, value |-> FALSE]
    ELSE LET appointmentIndex == findIndex(u[cu].appointments, appointmentId)
         IN  IF appointmentIndex = 0 THEN [users |-> u, value |-> TRUE]
             ELSE [users |-> [u EXCEPT ![cu].appointments[appointmentIndex].status = status],
                   value |-> TRUE]

(* Mutant: confirming a confirmed appointment moves it on to 'completed'. *)
updateAppointmentStatus_Advance(u, cu, appointmentId, status) ==
    IF cu = NoUser THEN [users |-> u, value |-> FALSE]
    ELSE IF cu \notin DOMAIN u THEN [users |-> u, value |-> FALSE]
    ELSE LET appointmentIndex == findIndex(u[cu].appointments, appointmentId)
         IN  IF appointmentIndex = 0 THEN [users |-> u, value |-> FALSE]
             ELSE [users |-> [u EXCEPT ![cu].appointments[appointmentIndex].status =
                                IF @ = status THEN "completed" ELSE status],
                   value |-> TRUE]

(* Mutant: the appointment's rating is written too. *)
updateAppointmentStatus_ResetRating(u, cu, appointmentId, status) ==
    IF cu = NoUser THEN [users |-> u, value |-> FALSE]
    ELSE IF cu \notin DOMAIN u THEN [users |-> u, value |-> FALSE]
    ELSE LET appointmentIndex == findIndex(u[cu].appointments, appointmentId)
         IN  IF appointmentIndex = 0 THEN [users |-> u, value |-> FALSE]
             ELSE [users |-> [u EXCEPT ![cu].appointments[appointmentIndex].status = status,
                                       ![cu].appointments[appointmentIndex].centerRating = 0],
                   value |-> TRUE]

updateAppointmentStatus(u, cu, appointmentId, status) ==
    IF cu = NoUser THEN [users |-> u, value |-> FALSE]
    ELSE IF cu \notin DOMAIN u THEN [users |-> u, value |-> FALSE]
    ELSE LET appointmentIndex == findIndex(u[cu].appointments, appointmentId)
         IN  IF appointmentIndex = 0 THEN [users |-> u, value |-> FALSE]
             ELSE [users |-> [u EXCEPT ![cu].appointments[appointmentIndex].status = status],
                   value |-> TRUE]

----------------------------------------------------------------------------
(* Return values *)

(* What a call came back with: the value its promise resolved to, or      *)
(* threw when the promise was rejected by an exception.  `ret` holds it in *)
(* the state the call's resolution leads to; the caller has taken it by   *)
(* the next step.                                                         *)
Returned(op, arg, value) == [op |-> op, arg |-> arg, value |-> value, threw |-> FALSE]
Threw(op, arg) == [op |-> op, arg |-> arg, value |-> FALSE, threw |-> TRUE]
NoReturn == Returned("none", <<>>, FALSE)

----------------------------------------------------------------------------
(* Timers *)

Delay(op) ==
    CASE op = "login" -> LoginDelay
      [] op = "createAccount" -> CreateAccountDelay
      [] op = "getAppointments" -> GetAppointmentsDelay
      [] op = "bookAppointment" -> BookAppointmentDelay
      [] op = "updateAppointmentStatus" -> UpdateAppointmentStatusDelay
      [] op = "getPatientDetails" -> GetPatientDetailsDelay
      [] op = "updatePatientDetails" -> UpdatePatientDetailsDelay
      [] op = "getAnalyticsData" -> GetAnalyticsDataDelay
      [] OTHER -> NotificationTimeout

(* live: the component instance that made the call is still mounted. *)
(* left: the time left on the timer.                                  *)
Call(op, arg, caller) ==
    [op |-> op, arg |-> arg, left |-> Delay(op), caller |-> caller, live |-> TRUE]

(* A timer fires when it has run out, after every timer started before it *)
(* with an equal or shorter timeout.                                       *)
CanFire(i) ==
    /\ pending[i].left = 0
    /\ \A j \in 1..(i - 1) : Delay(pending[j].op) > Delay(pending[i].op)

(* A call is started while fewer than MaxPending timers run and its own    *)
(* can still run out before the clock's last instant.                      *)
TicksFor(op) == (Delay(op) + Quantum - 1) \div Quantum
CanCall(op) == Len(pending) < MaxPending /\ now + TicksFor(op) * Quantum <= MaxNow

Tick ==
    /\ now < MaxNow
    /\ now' = now + Quantum
    /\ pending' = [k \in 1..Len(pending) |->
                    [pending[k] EXCEPT !.left = IF @ > Quantum THEN @ - Quantum ELSE 0]]
    /\ ret' = NoReturn
    /\ UNCHANGED <<storeVars, appVars, pageVars>>

----------------------------------------------------------------------------
(* Page components: the state a freshly mounted instance starts with *)

(* SchedulingPage: its useState initial values. *)
SchedInit ==
    [step |-> 1, selectedTherapies |-> <<>>, selectedDate |-> NoDate, selectedTime |-> "",
     centerRating |-> 0, showConfirmation |-> FALSE, isBooking |-> FALSE]

(* The chatbot modal is closed; Chatbot's useState initial values.         *)
(* request: the promise of chat.sendMessage the instance awaits, if any;   *)
(* sent: how many requests the instance has sent.                          *)
ChatInit ==
    [isChatbotOpen |-> FALSE, chat |-> "null", messages |-> <<>>, input |-> "",
     isLoading |-> FALSE, request |-> "none", sent |-> 0]

(* The SchedulingPage instance unmounts: its calls stay in flight, their   *)
(* setIsBooking no longer reaches a mounted component.                     *)
UnmountSched(pend) ==
    [k \in 1..Len(pend) |->
        IF pend[k].caller = "SchedulingPage" THEN [pend[k] EXCEPT !.live = FALSE] ELSE pend[k]]

(* renderPage after currentPage went from old to new: a page that stays    *)
(* keeps its instance, any other change mounts a fresh one.                *)
renderPage(old, new, page) == IF new = old THEN page ELSE SchedInit
renderPending(old, new, pend) == IF new = old THEN pend ELSE UnmountSched(pend)

----------------------------------------------------------------------------
(* The apiService driven directly by a client: any call, any argument. *)

ApiDrafts ==
    {[therapies |-> <<"KARAMA">>, date |-> d, time |-> "8:00am",
      bookedAt |-> now, centerRating |-> 5] : d \in {1, 2}}

AbsentId == StartNow - Quantum    \* an instant before any booking of the model
ApiIds == UNION {Ids(users[m].appointments) : m \in DOMAIN users} \cup {AbsentId}


ApiCallLogin(m, p) ==
    /\ CanCall("login")
    /\ pending' = Append(pending, Call("login", [mobileNumber |-> m, password |-> p], "client"))
    /\ ret' = NoReturn
    /\ UNCHANGED <<storeVars, now, appVars, pageVars>>

ApiResolveLogin(i) ==
    /\ pending[i].op = "login" /\ CanFire(i)
    /\ LET r == login(users, sessionUser, pending[i].arg.mobileNumber, pending[i].arg.password)
       IN  /\ sessionUser' = r.session
           /\ ret' = Returned("login", pending[i].arg, r.success)
    /\ pending' = Remove(pending, i)
    /\ UNCHANGED <<users, reminded, now, appVars, pageVars>>

(* logout is synchronous: no delay, no timer. *)
ApiLogout ==
    /\ sessionUser # NoUser
    /\ sessionUser' = NoUser
    /\ ret' = NoReturn
    /\ UNCHANGED <<users, reminded, now, pending, appVars, pageVars>>

ApiCallBook(d) ==
    /\ CanCall("bookAppointment")
    /\ \A m \in DOMAIN users :
          Len(users[m].appointments)
            + Cardinality({j \in 1..Len(pending) : pending[j].op = "bookAppointment"})
          < MaxAppointments
    /\ pending' = Append(pending, Call("bookAppointment", d, "client"))
    /\ ret' = NoReturn
    /\ UNCHANGED <<storeVars, now, appVars, pageVars>>

ApiResolveBook(i) ==
    /\ pending[i].op = "bookAppointment" /\ CanFire(i)
    /\ LET r == bookAppointment(users, sessionUser, pending[i].arg, now)
       IN  /\ users' = r.users
           /\ ret' = (IF r.threw THEN Threw("bookAppointment", pending[i].arg)
                      ELSE Returned("bookAppointment", pending[i].arg, r.value))
    /\ pending' = Remove(pending, i)
    /\ UNCHANGED <<sessionUser, reminded, now, appVars, pageVars>>

ApiCallUpdate(id, status) ==
    /\ CanCall("updateAppointmentStatus")
    /\ pending' = Append(pending,
          Call("updateAppointmentStatus", [id |-> id, status |-> status], "client"))
    /\ ret' = NoReturn
    /\ UNCHANGED <<storeVars, now, appVars, pageVars>>

ApiResolveUpdate(i) ==
    /\ pending[i].op = "updateAppointmentStatus" /\ CanFire(i)
    /\ LET r == updateAppointmentStatus(users, sessionUser, pending[i].arg.id,
                                        pending[i].arg.status)
       IN  /\ users' = r.users
           /\ ret' = Returned("updateAppointmentStatus", pending[i].arg, r.value)
    /\ pending' = Remove(pending, i)
    /\ UNCHANGED <<sessionUser, reminded, now, appVars, pageVars>>

PatientDetails == {[name |-> "Guna R", medicalHistory |-> "Sciatica, Asthma"]}

ApiCallUpdateDetails(d) ==
    /\ CanCall("updatePatientDetails")
    /\ pending' = Append(pending, Call("updatePatientDetails", d, "client"))
    /\ ret' = NoReturn
    /\ UNCHANGED <<storeVars, now, appVars, pageVars>>

ApiResolveUpdateDetails(i) ==
    /\ pending[i].op = "updatePatientDetails" /\ CanFire(i)
    /\ LET r == updatePatientDetails(users, sessionUser, pending[i].arg)
       IN  /\ users' = r.users
           /\ ret' = (IF r.threw THEN Threw("updatePatientDetails", pending[i].arg)
                      ELSE Returned("updatePatientDetails", pending[i].arg, r.value))
    /\ pending' = Remove(pending, i)
    /\ UNCHANGED <<sessionUser, reminded, now, appVars, pageVars>>

ReadOps == {"getPatientDetails", "getAppointments", "getAnalyticsData"}

ApiCallRead(op) ==
    /\ CanCall(op)
    /\ pending' = Append(pending, Call(op, <<>>, "client"))
    /\ ret' = NoReturn
    /\ UNCHANGED <<storeVars, now, appVars, pageVars>>

ApiResolveRead(i) ==
    /\ pending[i].op \in ReadOps /\ CanFire(i)
    /\ ret' = CASE pending[i].op = "getPatientDetails" ->
                    LET r == getPatientDetails(users, sessionUser)
                    IN  IF r.threw THEN Threw("getPatientDetails", <<>>)
                        ELSE Returned("getPatientDetails", <<>>, r.value)
                 [] pending[i].op = "getAppointments" ->
                    Returned("getAppointments", <<>>, getAppointments(users, sessionUser))
                 [] pending[i].op = "getAnalyticsData" ->
                    Returned("getAnalyticsData", <<>>, getAnalyticsData(users, sessionUser))
    /\ pending' = Remove(pending, i)
    /\ UNCHANGED <<storeVars, now, appVars, pageVars>>

InitApp ==
    /\ authStatus = "welcome"
    /\ currentUser = NoUser
    /\ currentPage = "Home"
    /\ previousPage = "Home"
    /\ notifications = <<>>
    /\ reminderAppointment = <<>>
    /\ isLoading = FALSE
    /\ schedulingPage = SchedInit
    /\ chatbot = ChatInit

InitApi ==
    /\ users = initializeDB
    /\ sessionUser = NoUser
    /\ reminded = {}
    /\ now = StartNow
    /\ pending = <<>>
    /\ ret = Returned("none", <<>>, FALSE)
    /\ InitApp

NextApi ==
    \/ Tick
    \/ \E c \in Credentials : ApiCallLogin(c[1], c[2])
    \/ \E i \in 1..Len(pending) : ApiResolveLogin(i)
    \/ ApiLogout
    \/ \E d \in ApiDrafts : ApiCallBook(d)
    \/ \E i \in 1..Len(pending) : ApiResolveBook(i)
    \/ \E id \in ApiIds, s \in {"confirmed", "completed"} : ApiCallUpdate(id, s)
    \/ \E i \in 1..Len(pending) : ApiResolveUpdate(i)
    \/ \E d \in PatientDetails : ApiCallUpdateDetails(d)
    \/ \E i \in 1..Len(pending) : ApiResolveUpdateDetails(i)
    \/ \E op \in ReadOps : ApiCallRead(op)
    \/ \E i \in 1..Len(pending) : ApiResolveRead(i)

SpecApi == InitApi /\ [][NextApi]_vars

----------------------------------------------------------------------------
(* The App component *)

NavPages == {"Home", "Schedule"}      \* pages the model navigates to
Pages == {"Home", "Analysis", "Schedule", "History", "Settings", "Profile"}   \* type Page

(* Mutant: appDate >= now. *)
isUpcoming_NotStrict(app, t, rem) ==
    /\ app.status = "upcoming"
    /\ DateValid(app.date) /\ AppDate(app.date) >= t
    /\ app.id \notin rem

(* The filter of checkUpcomingAppointments. *)
isUpcoming(app, t, rem) ==
    /\ app.status = "upcoming"
    /\ DateValid(app.date) /\ AppDate(app.date) > t
    /\ app.id \notin rem

(* Mutant: the last match in place of the first. *)
RECURSIVE find_Last(_, _, _)
find_Last(apps, t, rem) ==
    IF apps = <<>> THEN <<>>
    ELSE IF isUpcoming(apps[Len(apps)], t, rem) THEN <<apps[Len(apps)]>>
    ELSE find_Last(SubSeq(apps, 1, Len(apps) - 1), t, rem)

(* appointments.find(...): <<>> for undefined. *)
RECURSIVE find(_, _, _)
find(apps, t, rem) ==
    IF apps = <<>> THEN <<>>
    ELSE IF isUpcoming(Head(apps), t, rem) THEN <<Head(apps)>>
    ELSE find(Tail(apps), t, rem)

(* Mutant: no dependency list, the effect runs after every render. *)
useEffectAuthStatus_NoDeps(old, new, pend) ==
    IF new = "loggedIn"
    THEN Append(pend, Call("getAppointments", <<>>, "App"))
    ELSE pend

(* useEffect(..., [authStatus]): runs when authStatus has changed, and     *)
(* starts checkUpcomingAppointments when it is 'loggedIn'.                 *)
useEffectAuthStatus(old, new, pend) ==
    IF new # old /\ new = "loggedIn"
    THEN Append(pend, Call("getAppointments", <<>>, "App"))
    ELSE pend

(* addNotification: the entry and its 3000 ms timer. *)
addNotification(list, message) == Append(list, [id |-> now, message |-> message])

(* Mutant: no timer is set. *)
notificationTimer_None(pend) == pend

notificationTimer(pend) == Append(pend, Call("expire", now, "App"))

(* The auth page unmounts: its calls stay in flight, their setIsLoading    *)
(* and setError no longer reach a mounted component.                       *)
Unmount(pend) ==
    [k \in 1..Len(pend) |->
        IF pend[k].caller = "AuthPage" THEN [pend[k] EXCEPT !.live = FALSE] ELSE pend[k]]


NavigateToLogin ==
    /\ authStatus = "welcome"
    /\ authStatus' = "login"
    /\ isLoading' = FALSE
    /\ UNCHANGED <<storeVars, now, pending, ret, currentUser, currentPage, previousPage,
                   notifications, reminderAppointment, pageVars>>

NavigateToCreateAccount ==
    /\ authStatus = "welcome"
    /\ authStatus' = "createAccount"
    /\ isLoading' = FALSE
    /\ UNCHANGED <<storeVars, now, pending, ret, currentUser, currentPage, previousPage,
                   notifications, reminderAppointment, pageVars>>

AuthBack ==
    /\ authStatus \in {"login", "createAccount"}
    /\ authStatus' = "welcome"
    /\ isLoading' = FALSE
    /\ pending' = Unmount(pending)
    /\ UNCHANGED <<storeVars, now, ret, currentUser, currentPage, previousPage,
                   notifications, reminderAppointment, pageVars>>

handleLogin(m, p) ==
    /\ authStatus = "login" /\ ~isLoading /\ CanCall("login")
    /\ isLoading' = TRUE
    /\ pending' = Append(pending,
          Call("login", [mobileNumber |-> m, password |-> p], "AuthPage"))
    /\ UNCHANGED <<storeVars, now, ret, authStatus, currentUser, currentPage, previousPage,
                   notifications, reminderAppointment, pageVars>>

(* login resolves; on success handleLoginSuccess runs and the effect follows. *)
ResolveLogin(i) ==
    /\ pending[i].op = "login" /\ pending[i].caller = "AuthPage" /\ CanFire(i)
    /\ LET r == login(users, sessionUser, pending[i].arg.mobileNumber, pending[i].arg.password)
           rest == Remove(pending, i)
       IN  /\ sessionUser' = r.session
           /\ IF r.success
              THEN /\ currentUser' = r.user
                   /\ authStatus' = "loggedIn"
                   /\ isLoading' = FALSE
                   /\ pending' = useEffectAuthStatus(authStatus, "loggedIn", Unmount(rest))
              ELSE /\ isLoading' = (IF pending[i].live THEN FALSE ELSE isLoading)
                   /\ pending' = rest
                   /\ UNCHANGED <<currentUser, authStatus>>
    /\ UNCHANGED <<users, reminded, now, ret, currentPage, previousPage, notifications,
                   reminderAppointment, pageVars>>

UserData == [mobileNumber : Mobiles, password : {"password"}, name : {"Asha"},
             pastConditions : {"None"}]

handleCreateAccount(userData) ==
    /\ authStatus = "createAccount" /\ ~isLoading /\ CanCall("createAccount")
    /\ isLoading' = TRUE
    /\ pending' = Append(pending, Call("createAccount", userData, "AuthPage"))
    /\ UNCHANGED <<storeVars, now, ret, authStatus, currentUser, currentPage, previousPage,
                   notifications, reminderAppointment, pageVars>>

(* createAccount resolves; on success handleCreateSuccess runs. *)
ResolveCreateAccount(i) ==
    /\ pending[i].op = "createAccount" /\ pending[i].caller = "AuthPage" /\ CanFire(i)
    /\ LET r == createAccount(users, sessionUser, pending[i].arg)
           rest == Remove(pending, i)
       IN  /\ users' = r.users
           /\ sessionUser' = r.session
           /\ IF r.success
              THEN /\ notifications' = addNotification(notifications, "Welcome")
                   /\ currentUser' = r.user
                   /\ authStatus' = "loggedIn"
                   /\ isLoading' = FALSE
                   /\ pending' = useEffectAuthStatus(authStatus, "loggedIn",
                                    notificationTimer(Unmount(rest)))
              ELSE /\ isLoading' = (IF pending[i].live THEN FALSE ELSE isLoading)
                   /\ pending' = rest
                   /\ UNCHANGED <<currentUser, authStatus, notifications>>
    /\ UNCHANGED <<reminded, now, ret, currentPage, previousPage, reminderAppointment, pageVars>>

(* checkUpcomingAppointments after its await. *)
checkUpcomingAppointments(i) ==
    /\ pending[i].op = "getAppointments" /\ pending[i].caller = "App" /\ CanFire(i)
    /\ LET appointments == getAppointments(users, sessionUser)
           upcoming == find(appointments, now, reminded)
       IN  reminderAppointment' = (IF upcoming # <<>> THEN upcoming ELSE reminderAppointment)
    /\ pending' = Remove(pending, i)
    /\ UNCHANGED <<storeVars, now, ret, authStatus, currentUser, currentPage, previousPage,
                   notifications, isLoading, pageVars>>

handleNavigate(page) ==
    /\ authStatus = "loggedIn"
    /\ page # currentPage
    /\ previousPage' = currentPage
    /\ currentPage' = page
    /\ schedulingPage' = renderPage(currentPage, page, schedulingPage)
    /\ pending' = renderPending(currentPage, page, pending)
    /\ UNCHANGED <<storeVars, now, ret, authStatus, currentUser, notifications,
                   reminderAppointment, isLoading, chatbot>>

handleNavigateBack ==
    /\ authStatus = "loggedIn"
    /\ currentPage # "Home"
    /\ currentPage' = previousPage
    /\ schedulingPage' = renderPage(currentPage, previousPage, schedulingPage)
    /\ pending' = renderPending(currentPage, previousPage, pending)
    /\ UNCHANGED <<storeVars, now, ret, authStatus, currentUser, previousPage,
                   notifications, reminderAppointment, isLoading, chatbot>>

handleSosClick ==
    /\ authStatus = "loggedIn" /\ currentPage = "Home" /\ CanCall("expire")
    /\ notifications' = addNotification(notifications, "SOS Alert Sent")
    /\ pending' = notificationTimer(pending)
    /\ UNCHANGED <<storeVars, now, ret, authStatus, currentUser, currentPage, previousPage,
                   reminderAppointment, isLoading, pageVars>>

(* The timer of addNotification. *)
expireNotification(i) ==
    /\ pending[i].op = "expire" /\ CanFire(i)
    /\ notifications' = SelectSeq(notifications, LAMBDA n : n.id # pending[i].arg)
    /\ pending' = Remove(pending, i)
    /\ UNCHANGED <<storeVars, now, ret, authStatus, currentUser, currentPage, previousPage,
                   reminderAppointment, isLoading, pageVars>>

(* handleConfirmReminder up to its await; the closure holds the reminder. *)
handleConfirmReminder ==
    /\ authStatus = "loggedIn" /\ reminderAppointment # <<>> /\ CanCall("updateAppointmentStatus")
    /\ pending' = Append(pending, Call("updateAppointmentStatus",
          [id |-> reminderAppointment[1].id, status |-> "confirmed"], "App"))
    /\ UNCHANGED <<storeVars, now, ret, appVars, pageVars>>

(* Mutant: the marker is set only when the update found the appointment. *)
ResolveConfirmReminder_MarkOnSuccess(i) ==
    /\ pending[i].op = "updateAppointmentStatus" /\ pending[i].caller = "App" /\ CanFire(i)
    /\ LET r == updateAppointmentStatus(users, sessionUser, pending[i].arg.id,
                                        pending[i].arg.status)
       IN  /\ users' = r.users
           /\ reminded' = IF r.value THEN reminded \cup {pending[i].arg.id} ELSE reminded
    /\ notifications' = addNotification(notifications, "Appointment Confirmed!")
    /\ pending' = notificationTimer(Remove(pending, i))
    /\ reminderAppointment' = <<>>
    /\ UNCHANGED <<sessionUser, now, ret, authStatus, currentUser, currentPage, previousPage,
                   isLoading, pageVars>>

(* handleConfirmReminder after its await. *)
ResolveConfirmReminder(i) ==
    /\ pending[i].op = "updateAppointmentStatus" /\ pending[i].caller = "App" /\ CanFire(i)
    /\ users' = updateAppointmentStatus(users, sessionUser, pending[i].arg.id,
                                        pending[i].arg.status).users
    /\ reminded' = reminded \cup {pending[i].arg.id}
    /\ notifications' = addNotification(notifications, "Appointment Confirmed!")
    /\ pending' = notificationTimer(Remove(pending, i))
    /\ reminderAppointment' = <<>>
    /\ UNCHANGED <<sessionUser, now, ret, authStatus, currentUser, currentPage, previousPage,
                   isLoading, pageVars>>

(* Mutant: rescheduling deletes the reminded appointment from the store. *)
handleRescheduleReminder_Delete ==
    /\ authStatus = "loggedIn" /\ reminderAppointment # <<>>
    /\ reminded' = reminded \cup {reminderAppointment[1].id}
    /\ users' = [m \in DOMAIN users |->
                    [users[m] EXCEPT !.appointments =
                        SelectSeq(@, LAMBDA a : a.id # reminderAppointment[1].id)]]
    /\ IF currentPage # "Schedule"
       THEN previousPage' = currentPage /\ currentPage' = "Schedule"
       ELSE UNCHANGED <<previousPage, currentPage>>
    /\ schedulingPage' = renderPage(currentPage, "Schedule", schedulingPage)
    /\ pending' = renderPending(currentPage, "Schedule", pending)
    /\ reminderAppointment' = <<>>
    /\ UNCHANGED <<sessionUser, now, ret, authStatus, currentUser,
                   notifications, isLoading, chatbot>>

handleRescheduleReminder ==
    /\ authStatus = "loggedIn" /\ reminderAppointment # <<>>
    /\ reminded' = reminded \cup {reminderAppointment[1].id}
    /\ IF currentPage # "Schedule"
       THEN previousPage' = currentPage /\ currentPage' = "Schedule"
       ELSE UNCHANGED <<previousPage, currentPage>>
    /\ schedulingPage' = renderPage(currentPage, "Schedule", schedulingPage)
    /\ pending' = renderPending(currentPage, "Schedule", pending)
    /\ reminderAppointment' = <<>>
    /\ UNCHANGED <<users, sessionUser, now, ret, authStatus, currentUser,
                   notifications, isLoading, chatbot>>

(* Mutant: the marker is not set. *)
handleDismissReminder_NoMarker ==
    /\ authStatus = "loggedIn" /\ reminderAppointment # <<>>
    /\ reminderAppointment' = <<>>
    /\ UNCHANGED <<users, sessionUser, reminded, now, pending, ret, authStatus, currentUser,
                   currentPage, previousPage, notifications, isLoading, pageVars>>

handleDismissReminder ==
    /\ authStatus = "loggedIn" /\ reminderAppointment # <<>>
    /\ reminded' = reminded \cup {reminderAppointment[1].id}
    /\ reminderAppointment' = <<>>
    /\ UNCHANGED <<users, sessionUser, now, pending, ret, authStatus, currentUser,
                   currentPage, previousPage, notifications, isLoading, pageVars>>

(* The page is loaded again in the same tab: the script starts over, every *)
(* timer is gone, localStorage and sessionStorage are kept.                *)
Reload ==
    /\ authStatus # "welcome"
    /\ authStatus' = "welcome"
    /\ currentUser' = NoUser
    /\ currentPage' = "Home"
    /\ previousPage' = "Home"
    /\ notifications' = <<>>
    /\ reminderAppointment' = <<>>
    /\ isLoading' = FALSE
    /\ schedulingPage' = SchedInit
    /\ chatbot' = ChatInit
    /\ pending' = <<>>
    /\ UNCHANGED <<storeVars, now, ret>>

(* The store left by earlier sessions: the default user's bookings, made   *)
(* one after the other, the first of them possibly confirmed.              *)
PastInstant(k) == k * Quantum
PastDraft(d, k) ==
    [therapies |-> <<"KARAMA">>, date |-> d, time |-> "8:00am",
     bookedAt |-> PastInstant(k) - BookAppointmentDelay, centerRating |-> 5]

RECURSIVE BookAll(_, _, _)
BookAll(u, ds, k) ==
    IF k > Len(ds) THEN u
    ELSE BookAll(bookAppointment(u, DefaultMobile, PastDraft(ds[k], k), PastInstant(k)).users,
                 ds, k + 1)

DateLists == UNION {[1..n -> Dates] : n \in 0..MaxAppointments}

WithConfirmed(u, c) ==
    IF c THEN updateAppointmentStatus(u, DefaultMobile, PastInstant(1), "confirmed").users
    ELSE u

InitStores ==
    {WithConfirmed(BookAll(initializeDB, ds, 1), c) : ds \in DateLists, c \in BOOLEAN}

Init ==
    /\ users \in InitStores
    /\ sessionUser = NoUser
    /\ reminded = {}
    /\ now = StartNow
    /\ pending = <<>>
    /\ ret = Returned("none", <<>>, FALSE)
    /\ InitApp

(* The steps of the App while the page stays loaded. *)
NextLoaded ==
    \/ Tick
    \/ NavigateToLogin
    \/ NavigateToCreateAccount
    \/ AuthBack
    \/ \E c \in Credentials : handleLogin(c[1], c[2])
    \/ \E i \in 1..Len(pending) : ResolveLogin(i)
    \/ \E d \in UserData : handleCreateAccount(d)
    \/ \E i \in 1..Len(pending) : ResolveCreateAccount(i)
    \/ \E i \in 1..Len(pending) : checkUpcomingAppointments(i)
    \/ \E page \in NavPages : handleNavigate(page)
    \/ handleNavigateBack
    \/ handleSosClick
    \/ \E i \in 1..Len(pending) : expireNotification(i)
    \/ handleConfirmReminder
    \/ \E i \in 1..Len(pending) : ResolveConfirmReminder(i)
    \/ handleRescheduleReminder
    \/ handleDismissReminder

Next ==
    \/ NextLoaded
    \/ Reload

Spec == Init /\ [][Next]_vars

(* A store whose first appointment was written without the optional       *)
(* status field.                                                           *)
WithoutStatus(u) ==
    [u EXCEPT ![DefaultMobile].appointments[1].status = NoStatus]

InitStored ==
    /\ users \in {WithoutStatus(BookAll(initializeDB, ds, 1)) : ds \in DateLists \ {<<>>}}
    /\ sessionUser = NoUser
    /\ reminded = {}
    /\ now = StartNow
    /\ pending = <<>>
    /\ ret = Returned("none", <<>>, FALSE)
    /\ InitApp

SpecStored == InitStored /\ [][Next]_vars

(* The page stays loaded, time passes and a timer that has run out fires:  *)
(* the event loop is not blocked for ever.  Nothing else is assumed of     *)
(* what the user does.                                                     *)
SpecLive ==
    /\ Init /\ [][NextLoaded]_vars
    /\ WF_vars(Tick)
    /\ WF_vars(\E i \in 1..Len(pending) : ResolveLogin(i))
    /\ WF_vars(\E i \in 1..Len(pending) : ResolveCreateAccount(i))
    /\ WF_vars(\E i \in 1..Len(pending) : checkUpcomingAppointments(i))
    /\ WF_vars(\E i \in 1..Len(pending) : expireNotification(i))
    /\ WF_vars(\E i \in 1..Len(pending) : ResolveConfirmReminder(i))

----------------------------------------------------------------------------
(* The apiService with accounts: calls that write the store, started in    *)
(* any order and overlapping.                                              *)

(* What createAccount is called with: a new number under two names, and    *)
(* the default user's number.                                              *)
NewAccounts ==
    {[mobileNumber |-> OtherMobile, password |-> "password", name |-> n,
      pastConditions |-> "None"] : n \in {"Asha", "Ravi"}}
    \cup {[mobileNumber |-> DefaultMobile, password |-> "secret", name |-> "Asha",
           pastConditions |-> "None"]}

ApiCallCreateAccount(userData) ==
    /\ CanCall("createAccount")
    /\ pending' = Append(pending, Call("createAccount", userData, "client"))
    /\ ret' = NoReturn
    /\ UNCHANGED <<storeVars, now, appVars, pageVars>>

ApiResolveCreateAccount(i) ==
    /\ pending[i].op = "createAccount" /\ CanFire(i)
    /\ LET r == createAccount(users, sessionUser, pending[i].arg)
       IN  /\ users' = r.users
           /\ sessionUser' = r.session
           /\ ret' = Returned("createAccount", pending[i].arg, r.success)
    /\ pending' = Remove(pending, i)
    /\ UNCHANGED <<reminded, now, appVars, pageVars>>

(* The default user has one appointment, booked in an earlier session. *)
InitStore ==
    /\ users = BookAll(initializeDB, <<1>>, 1)
    /\ sessionUser = NoUser
    /\ reminded = {}
    /\ now = StartNow
    /\ pending = <<>>
    /\ ret = Returned("none", <<>>, FALSE)
    /\ InitApp

NextStore ==
    \/ Tick
    \/ \E c \in Credentials : ApiCallLogin(c[1], c[2])
    \/ \E i \in 1..Len(pending) : ApiResolveLogin(i)
    \/ ApiLogout
    \/ \E userData \in NewAccounts : ApiCallCreateAccount(userData)
    \/ \E i \in 1..Len(pending) : ApiResolveCreateAccount(i)
    \/ \E d \in {a \in ApiDrafts : a.date = 2} : ApiCallBook(d)
    \/ \E i \in 1..Len(pending) : ApiResolveBook(i)
    \/ \E id \in ApiIds, s \in {"confirmed", "completed"} : ApiCallUpdate(id, s)
    \/ \E i \in 1..Len(pending) : ApiResolveUpdate(i)
    \/ \E d \in PatientDetails : ApiCallUpdateDetails(d)
    \/ \E i \in 1..Len(pending) : ApiResolveUpdateDetails(i)

SpecStore == InitStore /\ [][NextStore]_vars

----------------------------------------------------------------------------
(* SchedulingPage *)

OnSchedule == authStatus = "loggedIn" /\ currentPage = "Schedule"

(* Mutant: the therapy is appended whether it is selected or not. *)
toggle_AlwaysAppend(prev, therapy) == Append(prev, therapy)

(* prev.find(...) ? prev.filter(...) : [...prev, therapy] *)
toggle(prev, therapy) ==
    IF \E k \in 1..Len(prev) : prev[k] = therapy
    THEN SelectSeq(prev, LAMBDA t : t # therapy)
    ELSE Append(prev, therapy)

(* new Date(2025, 8, day).toISOString().split('T')[0]: the UTC date of the *)
(* day's local midnight, which is the day before where local time is ahead *)
(* of UTC.                                                                 *)
ISODate(day, aheadOfUTC) == IF aheadOfUTC THEN day - 1 ELSE day

SchedUnchanged ==
    UNCHANGED <<storeVars, now, pending, ret, authStatus, currentUser, currentPage,
                previousPage, notifications, reminderAppointment, isLoading, chatbot>>

(* The therapy cards are rendered in step 1. *)
toggleTherapy(therapy) ==
    /\ OnSchedule /\ schedulingPage.step = 1
    /\ schedulingPage' = [schedulingPage EXCEPT
                             !.selectedTherapies = toggle(@, therapy)]
    /\ SchedUnchanged

(* Mutant: Next is enabled, and moves on, with no therapy selected. *)
handleNextStep_NoCheck ==
    /\ OnSchedule /\ schedulingPage.step = 1
    /\ schedulingPage' = [schedulingPage EXCEPT !.step = 2]
    /\ SchedUnchanged

handleNextStep ==
    /\ OnSchedule /\ schedulingPage.step = 1
    /\ Len(schedulingPage.selectedTherapies) > 0
    /\ schedulingPage' = [schedulingPage EXCEPT !.step = 2]
    /\ SchedUnchanged

(* The calendar and the time slots are rendered in step 2. *)
handleDateSelect(day, aheadOfUTC) ==
    /\ OnSchedule /\ schedulingPage.step = 2
    /\ schedulingPage' = [schedulingPage EXCEPT !.selectedDate = ISODate(day, aheadOfUTC)]
    /\ SchedUnchanged

setSelectedTime(time) ==
    /\ OnSchedule /\ schedulingPage.step = 2
    /\ schedulingPage' = [schedulingPage EXCEPT !.selectedTime = time]
    /\ SchedUnchanged

(* Book Now is disabled unless a date and a time are selected. *)
handleBookNow ==
    /\ OnSchedule /\ schedulingPage.step = 2
    /\ schedulingPage.selectedDate # NoDate /\ schedulingPage.selectedTime # ""
    /\ schedulingPage' = [schedulingPage EXCEPT !.showConfirmation = TRUE]
    /\ SchedUnchanged

(* ConfirmationModal, rendered while showConfirmation: Cancel. *)
onCancel ==
    /\ OnSchedule /\ schedulingPage.showConfirmation
    /\ schedulingPage' = [schedulingPage EXCEPT !.showConfirmation = FALSE]
    /\ SchedUnchanged

(* ConfirmationModal: Confirm. *)
handleConfirmBooking ==
    /\ OnSchedule /\ schedulingPage.showConfirmation
    /\ schedulingPage' = [schedulingPage EXCEPT !.showConfirmation = FALSE, !.step = 3]
    /\ SchedUnchanged

(* StarRating is rendered in step 3. *)
setCenterRating(rate) ==
    /\ OnSchedule /\ schedulingPage.step = 3
    /\ schedulingPage' = [schedulingPage EXCEPT !.centerRating = rate]
    /\ SchedUnchanged

newAppointment(page, t) ==
    [therapies |-> page.selectedTherapies, date |-> page.selectedDate,
     time |-> page.selectedTime, bookedAt |-> t, centerRating |-> page.centerRating]

(* Appointments stored for any user plus bookings in flight. *)
Booked(m) ==
    Len(users[m].appointments)
      + Cardinality({j \in 1..Len(pending) : pending[j].op = "bookAppointment"})

(* Mutant: Finish Booking stays enabled while isBooking. *)
handleFinishBooking_NoGuard ==
    /\ OnSchedule /\ schedulingPage.step = 3
    /\ schedulingPage.centerRating # 0
    /\ CanCall("bookAppointment")
    /\ \A m \in DOMAIN users : Booked(m) < MaxAppointments
    /\ schedulingPage' = [schedulingPage EXCEPT !.isBooking = TRUE]
    /\ pending' = Append(pending,
          Call("bookAppointment", newAppointment(schedulingPage, now), "SchedulingPage"))
    /\ UNCHANGED <<storeVars, now, ret, authStatus, currentUser, currentPage, previousPage,
                   notifications, reminderAppointment, isLoading, chatbot>>

(* handleFinishBooking up to its await; Finish Booking is rendered in      *)
(* step 3 and disabled while isBooking or centerRating === 0.              *)
handleFinishBooking ==
    /\ OnSchedule /\ schedulingPage.step = 3
    /\ ~schedulingPage.isBooking /\ schedulingPage.centerRating # 0
    /\ CanCall("bookAppointment")
    /\ \A m \in DOMAIN users : Booked(m) < MaxAppointments
    /\ schedulingPage' = [schedulingPage EXCEPT !.isBooking = TRUE]
    /\ pending' = Append(pending,
          Call("bookAppointment", newAppointment(schedulingPage, now), "SchedulingPage"))
    /\ UNCHANGED <<storeVars, now, ret, authStatus, currentUser, currentPage, previousPage,
                   notifications, reminderAppointment, isLoading, chatbot>>

(* handleFinishBooking after its await.  On success onBookingComplete runs *)
(* (App: addNotification, setCurrentPage('History')); when bookAppointment *)
(* throws, the handler ends there and setIsBooking(false) is not reached.  *)
ResolveFinishBooking(i) ==
    /\ pending[i].op = "bookAppointment" /\ pending[i].caller = "SchedulingPage" /\ CanFire(i)
    /\ LET r == bookAppointment(users, sessionUser, pending[i].arg, now)
           rest == Remove(pending, i)
       IN  /\ users' = r.users
           /\ IF r.value
              THEN /\ notifications' = addNotification(notifications, "Appointment booked")
                   /\ currentPage' = "History"
                   /\ schedulingPage' = renderPage(currentPage, "History", schedulingPage)
                   /\ pending' = notificationTimer(renderPending(currentPage, "History", rest))
              ELSE /\ schedulingPage' =
                        (IF pending[i].live /\ ~r.threw
                         THEN [schedulingPage EXCEPT !.isBooking = FALSE]
                         ELSE schedulingPage)
                   /\ pending' = rest
                   /\ UNCHANGED <<currentPage, notifications>>
    /\ UNCHANGED <<sessionUser, reminded, now, ret, authStatus, currentUser, previousPage,
                   reminderAppointment, isLoading, chatbot>>

(* The logged-in App on its way through the scheduling flow. *)
InitSched ==
    /\ users = initializeDB
    /\ sessionUser = DefaultMobile
    /\ reminded = {}
    /\ now = StartNow
    /\ pending = <<>>
    /\ ret = Returned("none", <<>>, FALSE)
    /\ authStatus = "loggedIn"
    /\ currentUser = DefaultMobile
    /\ currentPage = "Home"
    /\ previousPage = "Home"
    /\ notifications = <<>>
    /\ reminderAppointment = <<>>
    /\ isLoading = FALSE
    /\ schedulingPage = SchedInit
    /\ chatbot = ChatInit

NextSched ==
    \/ Tick
    \/ \E page \in NavPages : handleNavigate(page)
    \/ handleNavigateBack
    \/ \E therapy \in Therapies : toggleTherapy(therapy)
    \/ handleNextStep
    \/ \E day \in Days, aheadOfUTC \in AheadOfUTC : handleDateSelect(day, aheadOfUTC)
    \/ \E time \in Times : setSelectedTime(time)
    \/ handleBookNow
    \/ onCancel
    \/ handleConfirmBooking
    \/ \E rate \in Ratings : setCenterRating(rate)
    \/ handleFinishBooking
    \/ \E i \in 1..Len(pending) : ResolveFinishBooking(i)
    \/ \E i \in 1..Len(pending) : expireNotification(i)

SpecSched == InitSched /\ [][NextSched]_vars

----------------------------------------------------------------------------
(* The logged-in App with a stored appointment: the reminder flow and the  *)
(* scheduling flow together.  The first state is the one a successful      *)
(* login leaves: the default user is logged in and the reminder check has  *)
(* been started.                                                           *)

InitFlows ==
    /\ users \in {BookAll(initializeDB, <<d>>, 1) : d \in Dates}
    /\ sessionUser = DefaultMobile
    /\ reminded = {}
    /\ now = StartNow
    /\ pending = <<Call("getAppointments", <<>>, "App")>>
    /\ ret = Returned("none", <<>>, FALSE)
    /\ authStatus = "loggedIn"
    /\ currentUser = DefaultMobile
    /\ currentPage = "Home"
    /\ previousPage = "Home"
    /\ notifications = <<>>
    /\ reminderAppointment = <<>>
    /\ isLoading = FALSE
    /\ schedulingPage = SchedInit
    /\ chatbot = ChatInit

NextFlows ==
    \/ Tick
    \/ \E i \in 1..Len(pending) : checkUpcomingAppointments(i)
    \/ handleConfirmReminder
    \/ \E i \in 1..Len(pending) : ResolveConfirmReminder(i)
    \/ handleRescheduleReminder
    \/ handleDismissReminder
    \/ \E page \in NavPages : handleNavigate(page)
    \/ toggleTherapy("KARAMA")
    \/ handleNextStep
    \/ \E day \in Days, aheadOfUTC \in AheadOfUTC : handleDateSelect(day, aheadOfUTC)
    \/ \E time \in Times : setSelectedTime(time)
    \/ handleBookNow
    \/ handleConfirmBooking
    \/ \E rate \in Ratings : setCenterRating(rate)
    \/ handleFinishBooking
    \/ \E i \in 1..Len(pending) : ResolveFinishBooking(i)
    \/ \E i \in 1..Len(pending) : expireNotification(i)

SpecFlows == InitFlows /\ [][NextFlows]_vars

----------------------------------------------------------------------------
(* The logged-in App and its notifications alone: the user navigates and   *)
(* presses SOS, time passes, timers fire.  A timer that has run out fires  *)
(* eventually (the event loop is not blocked for ever), and time passes.   *)

InitNotify ==
    /\ users = initializeDB
    /\ sessionUser = DefaultMobile
    /\ reminded = {}
    /\ now = StartNow
    /\ pending = <<>>
    /\ ret = Returned("none", <<>>, FALSE)
    /\ authStatus = "loggedIn"
    /\ currentUser = DefaultMobile
    /\ currentPage = "Home"
    /\ previousPage = "Home"
    /\ notifications = <<>>
    /\ reminderAppointment = <<>>
    /\ isLoading = FALSE
    /\ schedulingPage = SchedInit
    /\ chatbot = ChatInit

NextNotify ==
    \/ Tick
    \/ \E page \in Pages : handleNavigate(page)
    \/ handleNavigateBack
    \/ handleSosClick
    \/ \E i \in 1..Len(pending) : expireNotification(i)

SpecNotify ==
    /\ InitNotify /\ [][NextNotify]_vars
    /\ WF_vars(Tick)
    /\ WF_vars(\E i \in 1..Len(pending) : expireNotification(i))

----------------------------------------------------------------------------
(* Chatbot *)

(* What the user types: nothing, white space only, a question. *)
Inputs == {"", " ", "hi"}

(* input.trim() *)
Trim(input) == IF input = " " THEN "" ELSE input

InitFailedMessage ==
    [role |-> "model", text |-> "Sorry, the AI assistant could not be initialized."]
SendFailedMessage ==
    [role |-> "model", text |-> "Sorry, I encountered an error. Please try again."]

(* The Chatbot instance unmounts: its calls stay in flight, their setState *)
(* no longer reaches a mounted component.                                  *)
UnmountChat(pend) ==
    [k \in 1..Len(pend) |->
        IF pend[k].caller = "Chatbot" THEN [pend[k] EXCEPT !.live = FALSE] ELSE pend[k]]

(* HomePage's onLaunchChat: the modal opens and a Chatbot mounts; its      *)
(* effect runs initializeChat, where `new GoogleGenAI` throws (aiOk false: *)
(* no API key in the build) or getPatientDetails is awaited.               *)
onLaunchChat(aiOk) ==
    /\ authStatus = "loggedIn" /\ currentPage = "Home"
    /\ ~chatbot.isChatbotOpen
    /\ IF aiOk
       THEN /\ CanCall("getPatientDetails")
            /\ pending' = Append(pending, Call("getPatientDetails", <<>>, "Chatbot"))
            /\ chatbot' = [ChatInit EXCEPT !.isChatbotOpen = TRUE]
       ELSE /\ pending' = pending
            /\ chatbot' = [ChatInit EXCEPT !.isChatbotOpen = TRUE,
                                           !.messages = <<InitFailedMessage>>]
    /\ ret' = NoReturn
    /\ UNCHANGED <<storeVars, now, appVars, schedulingPage>>

(* initializeChat after its await: the chat session is created, or the     *)
(* catch replaces the transcript when getPatientDetails threw.             *)
ResolveInitializeChat(i) ==
    /\ pending[i].op = "getPatientDetails" /\ pending[i].caller = "Chatbot"
    /\ CanFire(i)
    /\ LET r == getPatientDetails(users, sessionUser)
       IN  /\ ret' = IF r.threw THEN Threw("getPatientDetails", <<>>)
                     ELSE Returned("getPatientDetails", <<>>, r.value)
           /\ chatbot' = IF ~pending[i].live THEN chatbot
                         ELSE IF r.threw
                              THEN [chatbot EXCEPT !.messages = <<InitFailedMessage>>]
                              ELSE [chatbot EXCEPT !.chat = "chat"]
    /\ pending' = Remove(pending, i)
    /\ UNCHANGED <<storeVars, now, appVars, schedulingPage>>

(* ChatbotModal's onClose: the modal closes and the Chatbot unmounts; the  *)
(* answer to a request still in flight reaches no component.               *)
onClose ==
    /\ chatbot.isChatbotOpen
    /\ chatbot' = ChatInit
    /\ pending' = UnmountChat(pending)
    /\ ret' = NoReturn
    /\ UNCHANGED <<storeVars, now, appVars, schedulingPage>>

(* The text field's onChange; the field is disabled while there is no chat *)
(* session or a request is in flight.                                      *)
setInput(value) ==
    /\ chatbot.isChatbotOpen
    /\ chatbot.chat # "null" /\ ~chatbot.isLoading
    /\ chatbot' = [chatbot EXCEPT !.input = value]
    /\ ret' = NoReturn
    /\ UNCHANGED <<storeVars, now, pending, appVars, schedulingPage>>

(* sendMessage goes on past its first line. *)
canSend(c) == Trim(c.input) # "" /\ c.chat # "null" /\ ~c.isLoading

(* The form is submitted. *)
sendMessage ==
    /\ chatbot.isChatbotOpen
    /\ chatbot.sent < MaxSends
    /\ chatbot' = IF ~canSend(chatbot) THEN chatbot
                  ELSE [chatbot EXCEPT
                           !.messages = Append(@, [role |-> "user", text |-> chatbot.input]),
                           !.input = "",
                           !.isLoading = TRUE,
                           !.request = "pending",
                           !.sent = @ + 1]
    /\ ret' = NoReturn
    /\ UNCHANGED <<storeVars, now, pending, appVars, schedulingPage>>

(* The try block after the await: the answer joins the transcript; then    *)
(* the finally block.                                                      *)
onSendDone(c) ==
    [c EXCEPT !.messages = Append(@, [role |-> "model", text |-> "response.text"]),
              !.isLoading = FALSE, !.request = "none"]

(* Mutant: the catch block reports nothing. *)
onSendFailed_Silent(c) ==
    [c EXCEPT !.isLoading = FALSE, !.request = "none"]

(* The catch block, then the finally block. *)
onSendFailed(c) ==
    [c EXCEPT !.messages = Append(@, SendFailedMessage),
              !.isLoading = FALSE, !.request = "none"]

(* The request of the mounted Chatbot comes back, with an answer (ok) or   *)
(* rejected, after any time.                                               *)
ResolveSendMessage(ok) ==
    /\ chatbot.request = "pending"
    /\ chatbot' = IF ok THEN onSendDone(chatbot) ELSE onSendFailed(chatbot)
    /\ ret' = IF ok THEN Returned("sendMessage", <<>>, "response.text")
              ELSE Threw("sendMessage", <<>>)
    /\ UNCHANGED <<storeVars, now, pending, appVars, schedulingPage>>

NextChat ==
    \/ Tick
    \/ \E aiOk \in BOOLEAN : onLaunchChat(aiOk)
    \/ \E i \in 1..Len(pending) : ResolveInitializeChat(i)
    \/ onClose
    \/ \E value \in Inputs : setInput(value)
    \/ sendMessage
    \/ \E ok \in BOOLEAN : ResolveSendMessage(ok)

(* The default user is logged in and looks at the Home page. *)
SpecChat == InitNotify /\ [][NextChat]_vars

----------------------------------------------------------------------------
(* Properties of the apiService, checked under SpecApi *)

(* The step resolves the i-th call in flight, a call of op. *)
Resolves(i, op) == pending[i].op = op /\ pending' = Remove(pending, i)

SameCall(a, b) == a.op = b.op /\ a.caller = b.caller /\ a.left = b.left /\ a.arg = b.arg
CountCalls(p, e) == Cardinality({k \in 1..Len(p) : SameCall(p[k], e)})
(* The step takes the i-th call in flight out of `pending`. *)
Consumes(i) == CountCalls(pending', pending[i]) < CountCalls(pending, pending[i])

(* C3: in every reachable state the ids of the appointments in any one     *)
(* user's stored collection are pairwise distinct.                         *)
C3_UniqueIds ==
    \A m \in DOMAIN users :
        \A i, j \in 1..Len(users[m].appointments) :
            i # j => users[m].appointments[i].id # users[m].appointments[j].id

(* C4: a bookAppointment call whose body runs while a current user is set  *)
(* appends exactly one appointment at the end of that user's collection,   *)
(* with status 'upcoming' and the draft's therapies, date, time, bookedAt  *)
(* and centerRating, and returns true.                                     *)
C4_BookAppends ==
    [][\A i \in 1..Len(pending) :
          (Resolves(i, "bookAppointment") /\ sessionUser # NoUser) =>
              /\ sessionUser \in DOMAIN users
              /\ LET d == pending[i].arg
                     before == users[sessionUser].appointments
                     after == users'[sessionUser].appointments
                     a == after[Len(after)]
                 IN  /\ Len(after) = Len(before) + 1
                     /\ SubSeq(after, 1, Len(before)) = before
                     /\ a.status = "upcoming"
                     /\ a.therapies = d.therapies /\ a.date = d.date /\ a.time = d.time
                     /\ a.bookedAt = d.bookedAt /\ a.centerRating = d.centerRating
              /\ ret' = Returned("bookAppointment", pending[i].arg, TRUE)]_vars

(* C4 witness: a booking returned true with an appointment stored before it. *)
C4_Witness ==
    /\ ret.op = "bookAppointment" /\ ret.value
    /\ sessionUser \in DOMAIN users
    /\ Len(users[sessionUser].appointments) = 2

(* C5: updateAppointmentStatus with an id that is not in the current       *)
(* user's collection returns false and leaves the users mapping unchanged. *)
C5_UpdateNotFound ==
    [][\A i \in 1..Len(pending) :
          (/\ Resolves(i, "updateAppointmentStatus")
           /\ pending[i].arg.id \notin Ids(getAppointments(users, sessionUser))) =>
              /\ users' = users
              /\ ret' = Returned("updateAppointmentStatus", pending[i].arg, FALSE)]_vars

(* C5 witness: an update returned false for a user who has appointments. *)
C5_Witness ==
    /\ ret.op = "updateAppointmentStatus" /\ ~ret.value
    /\ sessionUser \in DOMAIN users
    /\ users[sessionUser].appointments # <<>>
    /\ ret.arg.id \notin Ids(users[sessionUser].appointments)

C8_ConfirmIdempotent ==
    [][\A i \in 1..Len(pending) :
          (Resolves(i, "updateAppointmentStatus") /\ pending[i].arg.status = "confirmed") =>
              /\ pending[i].arg.id \in Ids(getAppointments(users, sessionUser)) =>
                    ret'.value
              /\ (/\ ret.op = "updateAppointmentStatus" /\ ~ret.threw
                  /\ ret.arg = pending[i].arg /\ ret.value) =>
                    users' = users /\ ret' = ret]_vars

(* C8 witness: the first confirm has returned true and the second, the     *)
(* same call, is due.                                                      *)
C8_Witness ==
    /\ ret.op = "updateAppointmentStatus" /\ ret.value /\ ret.arg.status = "confirmed"
    /\ \E i \in 1..Len(pending) :
          /\ pending[i].op = "updateAppointmentStatus" /\ pending[i].arg = ret.arg
          /\ CanFire(i)
    /\ \E a \in {users[sessionUser].appointments[k] :
                    k \in 1..Len(users[sessionUser].appointments)} :
          a.id = ret.arg.id /\ a.status = "confirmed"

WriteOps == {"bookAppointment", "updatePatientDetails", "updateAppointmentStatus"}

(* C14: a bookAppointment, updatePatientDetails or updateAppointmentStatus *)
(* call that returns false leaves the stored users mapping as it was.      *)
C14_FalseLeavesStore ==
    [][\A i \in 1..Len(pending) :
          (/\ pending[i].op \in WriteOps /\ Resolves(i, pending[i].op)
           /\ ret'.op = pending[i].op /\ ~ret'.threw /\ ret'.value = FALSE) =>
              users' = users]_vars

(* C14 witness: with an appointment stored and nobody logged in any more,  *)
(* a booking has returned false.                                           *)
C14_Witness ==
    /\ ret.op = "bookAppointment" /\ ~ret.threw /\ ret.value = FALSE
    /\ sessionUser = NoUser
    /\ users[DefaultMobile].appointments # <<>>

(* C15: getAppointments returns the current user's stored appointments,   *)
(* each written no earlier than the one before it (the id is the instant   *)
(* of the write); the empty sequence when the user has none or when no     *)
(* current user is set; and it leaves the store as it was.                 *)
C15_GetAppointments ==
    [][\A i \in 1..Len(pending) :
          Resolves(i, "getAppointments") =>
              /\ users' = users /\ sessionUser' = sessionUser
              /\ ret'.op = "getAppointments" /\ ~ret'.threw
              /\ sessionUser = NoUser => ret'.value = <<>>
              /\ sessionUser \in DOMAIN users =>
                    /\ ret'.value = users[sessionUser].appointments
                    /\ \A j, k \in 1..Len(ret'.value) :
                          j < k => ret'.value[j].id <= ret'.value[k].id]_vars

(* C15 witness: getAppointments has returned two appointments that were    *)
(* booked at different instants.                                           *)
C15_Witness ==
    /\ ret.op = "getAppointments"
    /\ Len(ret.value) = 2
    /\ ret.value[1].id < ret.value[2].id

DataOps == WriteOps \cup ReadOps

(* The value an operation reports failure with. *)
FailureValue(op) == IF op \in WriteOps THEN FALSE ELSE <<>>

(* C16: every getPatientDetails, updatePatientDetails, getAppointments,    *)
(* bookAppointment, updateAppointmentStatus and getAnalyticsData call      *)
(* completes by returning a value, none by an exception; without a current *)
(* user the value is false, null or the empty sequence.                    *)
C16_NoUncaughtException ==
    [][\A i \in 1..Len(pending) :
          (pending[i].op \in DataOps /\ Resolves(i, pending[i].op)) =>
              /\ ret'.op = pending[i].op
              /\ ~ret'.threw
              /\ sessionUser = NoUser => ret'.value = FailureValue(pending[i].op)]_vars

(* C16 witness: with an appointment stored and nobody logged in any more,  *)
(* getPatientDetails has returned null.                                    *)
C16_Witness ==
    /\ ret.op = "getPatientDetails" /\ ~ret.threw /\ ret.value = <<>>
    /\ sessionUser = NoUser
    /\ users[DefaultMobile].appointments # <<>>

(* The call in flight as pending[i] was made (its draft's bookedAt) before *)
(* the stored appointment a was written (a's id).                          *)
StartedBeforeWrite(i, a) == pending[i].arg.bookedAt < a.id

(* C11 as stated: when a bookAppointment call resolves that was made       *)
(* before another call's appointment was written, its write discards that  *)
(* appointment: the collection is no longer than before the step.          *)
C11_LastWriteDiscards ==
    [][\A i \in 1..Len(pending) :
          (/\ Resolves(i, "bookAppointment") /\ sessionUser \in DOMAIN users
           /\ \E k \in 1..Len(users[sessionUser].appointments) :
                 StartedBeforeWrite(i, users[sessionUser].appointments[k])) =>
              Len(users'[sessionUser].appointments) = Len(users[sessionUser].appointments)]_vars

(* C11 amended: a bookAppointment call reads the record in the turn in     *)
(* which it writes it, after its delay; when it resolves after another     *)
(* call's write that happened while it was in flight, it keeps every       *)
(* stored appointment in place and adds its own, so both new appointments  *)
(* are in the collection.                                                  *)
C11_OverlapKeepsBoth ==
    [][\A i \in 1..Len(pending) :
          (/\ Resolves(i, "bookAppointment") /\ sessionUser \in DOMAIN users) =>
              LET before == users[sessionUser].appointments
                  after == users'[sessionUser].appointments
              IN  \A k \in 1..Len(before) :
                      StartedBeforeWrite(i, before[k]) =>
                          /\ Len(after) = Len(before) + 1
                          /\ after[k] = before[k]
                          /\ after[Len(after)].bookedAt = pending[i].arg.bookedAt]_vars

(* C11 witness: two appointments are stored, and the call that wrote the   *)
(* second was made before the first was written.                           *)
C11_Witness ==
    /\ sessionUser \in DOMAIN users
    /\ Len(users[sessionUser].appointments) = 2
    /\ users[sessionUser].appointments[2].bookedAt < users[sessionUser].appointments[1].id
    /\ ret.op = "bookAppointment" /\ ret.value

----------------------------------------------------------------------------
(* Properties of the scheduling flow, checked under SpecSched *)

(* A draft or record with a therapy, a date and a time. *)
Complete(a) == a.therapies # <<>> /\ a.date # NoDate /\ a.time # ""

(* C13: no stored appointment has an empty therapies list, an unset date   *)
(* or an unset time, and no booking call in flight carries such a draft;   *)
(* a booking is in progress only in step 3; step >= 2 implies that         *)
(* selectedTherapies is non-empty and step = 3 that selectedDate and       *)
(* selectedTime are set.                                                   *)
C13_NoIncompleteAppointment ==
    /\ \A m \in DOMAIN users :
          \A k \in 1..Len(users[m].appointments) : Complete(users[m].appointments[k])
    /\ \A i \in 1..Len(pending) :
          pending[i].op = "bookAppointment" => Complete(pending[i].arg)
    /\ schedulingPage.isBooking => schedulingPage.step = 3
    /\ schedulingPage.step >= 2 => schedulingPage.selectedTherapies # <<>>
    /\ schedulingPage.step = 3 =>
          schedulingPage.selectedDate # NoDate /\ schedulingPage.selectedTime # ""

(* C13 witness: the flow has stored an appointment with two therapies,    *)
(* and a later pass through the flow has its own booking in flight.        *)
C13_Witness ==
    /\ \E k \in 1..Len(users[sessionUser].appointments) :
          Len(users[sessionUser].appointments[k].therapies) = 2
    /\ currentPage = "Schedule" /\ schedulingPage.isBooking
    /\ \E i \in 1..Len(pending) : pending[i].op = "bookAppointment" /\ pending[i].live

Selected(sel, therapy) == \E k \in 1..Len(sel) : sel[k] = therapy

(* C25: the selection of a SchedulingPage never holds a therapy twice;     *)
(* from every selection reached, toggling a selected therapy gives the     *)
(* selection without it, toggling an unselected one gives the selection    *)
(* with it at the end, and toggling that one again gives the selection     *)
(* back.                                                                   *)
C25_ToggleNoDuplicates ==
    LET sel == schedulingPage.selectedTherapies
    IN  /\ \A i, j \in 1..Len(sel) : i # j => sel[i] # sel[j]
        /\ \A therapy \in Therapies :
              IF Selected(sel, therapy)
              THEN /\ ~Selected(toggle(sel, therapy), therapy)
                   /\ toggle(sel, therapy) = SelectSeq(sel, LAMBDA t : t # therapy)
              ELSE /\ toggle(sel, therapy) = Append(sel, therapy)
                   /\ toggle(toggle(sel, therapy), therapy) = sel

(* C25 witness: both therapies are selected, ENEMA first. *)
C25_Witness ==
    /\ OnSchedule /\ schedulingPage.step = 1
    /\ schedulingPage.selectedTherapies = <<"ENEMA", "KARAMA">>

(* The bookAppointment calls of the mounted SchedulingPage instance that   *)
(* are in flight.                                                          *)
LiveBookings(pend) ==
    {i \in 1..Len(pend) : /\ pend[i].op = "bookAppointment"
                          /\ pend[i].caller = "SchedulingPage" /\ pend[i].live}

Stored(u) == Len(u[DefaultMobile].appointments)

(* C27: the mounted SchedulingPage instance has at most one bookAppointment *)
(* call in flight, and has one only while isBooking; Finish Booking starts  *)
(* a call only when the instance has none; and the step in which the        *)
(* instance's call comes back with success adds exactly one appointment,    *)
(* built from the instance's selection, and ends the instance (the App      *)
(* shows History), so one successful pass adds exactly one appointment.     *)
C27_OneBookingPerPass ==
    [][ /\ Cardinality(LiveBookings(pending')) <= 1
        /\ LiveBookings(pending') # {} => schedulingPage'.isBooking
        /\ Len(pending') > Len(pending) /\ LiveBookings(pending') # {}
              /\ pending'[Len(pending')].op = "bookAppointment"
              => LiveBookings(pending) = {}
        /\ Stored(users') \in {Stored(users), Stored(users) + 1}
        /\ \A i \in LiveBookings(pending) :
              pending[i].left = 0 /\ Consumes(i) =>
                 /\ Stored(users') = Stored(users) + 1
                 /\ users'[DefaultMobile].appointments[Stored(users')].therapies
                       = pending[i].arg.therapies
                 /\ currentPage' = "History"
                 /\ schedulingPage' = SchedInit
                 /\ LiveBookings(pending') = {} ]_vars

(* C27 witness: a pass through the flow has come back with success: the    *)
(* App shows History with the booking's notification, one appointment is   *)
(* stored and no bookAppointment call is in flight.                        *)
C27_Witness ==
    /\ currentPage = "History" /\ Stored(users) = 1 /\ notifications # <<>>
    /\ \A i \in 1..Len(pending) : pending[i].op # "bookAppointment"

----------------------------------------------------------------------------
(* Properties of the notifications, checked under SpecNotify *)

Shown(id) == \E k \in 1..Len(notifications) : notifications[k].id = id

C24_ExpireIndependently ==
    /\ [][Len(notifications') < Len(notifications) =>
             \E i \in 1..Len(pending) :
                 /\ pending[i].op = "expire" /\ pending[i].left = 0 /\ Consumes(i)
                 /\ \E k \in 1..Len(notifications) :
                       /\ notifications[k].id = pending[i].arg
                       /\ notifications' = Remove(notifications, k)]_vars
    /\ [][Len(notifications') >= Len(notifications) =>
             SubSeq(notifications', 1, Len(notifications)) = notifications]_vars

----------------------------------------------------------------------------
(* Properties of the store, checked under SpecStore *)

(* The step is the return of the i-th call in flight, a call of op, with   *)
(* the value true.                                                         *)
Succeeds(i, op) == Resolves(i, op) /\ ret'.op = op /\ ~ret'.threw /\ ret'.value = TRUE

(* C23: an updateAppointmentStatus(id, s) that returns true leaves the     *)
(* users mapping as it was but for the status of one appointment of the    *)
(* current user, whose id is id and whose status becomes s: that           *)
(* appointment's other fields, the user's other appointments, details,     *)
(* medical history and analytics, and every other user are unchanged.      *)
C23_UpdateWritesStatusOnly ==
    [][\A i \in 1..Len(pending) :
          Succeeds(i, "updateAppointmentStatus") =>
              /\ sessionUser \in DOMAIN users
              /\ \E k \in 1..Len(users[sessionUser].appointments) :
                    /\ users[sessionUser].appointments[k].id = pending[i].arg.id
                    /\ users' = [users EXCEPT ![sessionUser].appointments[k].status =
                                                  pending[i].arg.status]]_vars

(* C23 witness: an update has just returned true for the current user,     *)
(* while a second user is stored.                                          *)
C23_Witness ==
    /\ ret.op = "updateAppointmentStatus" /\ ret.value = TRUE
    /\ DOMAIN users = Mobiles
    /\ \E a \in {users[sessionUser].appointments[k] :
                    k \in 1..Len(users[sessionUser].appointments)} :
          a.id = ret.arg.id /\ a.status = ret.arg.status

(* Appointment b is appointment a, its status apart. *)
SameButStatus(a, b) == [b EXCEPT !.status = a.status] = a

StoreOps == {"bookAppointment", "updateAppointmentStatus", "updatePatientDetails",
             "createAccount"}

(* The step, the return of the i-th call in flight, keeps what is stored:  *)
(* every user stays, with every appointment in its place; a status is      *)
(* written only by an updateAppointmentStatus for that id, details and     *)
(* medical history only by an updatePatientDetails.                        *)
KeepsStored(i) ==
    \A m \in DOMAIN users :
        /\ m \in DOMAIN users'
        /\ users'[m].password = users[m].password
        /\ users'[m].analytics = users[m].analytics
        /\ (users'[m].details # users[m].details
               \/ users'[m].medicalHistory # users[m].medicalHistory)
              => pending[i].op = "updatePatientDetails"
        /\ Len(users'[m].appointments) >= Len(users[m].appointments)
        /\ \A k \in 1..Len(users[m].appointments) :
              /\ SameButStatus(users[m].appointments[k], users'[m].appointments[k])
              /\ users'[m].appointments[k].status # users[m].appointments[k].status
                    => /\ pending[i].op = "updateAppointmentStatus"
                       /\ pending[i].arg.id = users[m].appointments[k].id
                       /\ pending[i].arg.status = users'[m].appointments[k].status

(* What the i-th call in flight was to write is in the store after the step. *)
Written(i) ==
    CASE pending[i].op = "bookAppointment" ->
            LET after == users'[sessionUser].appointments
            IN  /\ Len(after) = Len(users[sessionUser].appointments) + 1
                /\ after[Len(after)] = newAppointmentWithMeta(pending[i].arg, now)
      [] pending[i].op = "updateAppointmentStatus" ->
            \E k \in 1..Len(users'[sessionUser].appointments) :
                /\ users'[sessionUser].appointments[k].id = pending[i].arg.id
                /\ users'[sessionUser].appointments[k].status = pending[i].arg.status
      [] pending[i].op = "updatePatientDetails" ->
            /\ users'[sessionUser].details = pending[i].arg.name
            /\ users'[sessionUser].medicalHistory = pending[i].arg.medicalHistory
      [] pending[i].op = "createAccount" ->
            /\ pending[i].arg.mobileNumber \notin DOMAIN users
            /\ users'[pending[i].arg.mobileNumber] = newUser(pending[i].arg)

(* C26: whatever calls overlap it, the return of a bookAppointment,        *)
(* updateAppointmentStatus, updatePatientDetails or createAccount call     *)
(* keeps everything the store holds at that moment, what calls that        *)
(* returned while it was in flight wrote included, and when it returns     *)
(* success what it was to write is in the store: no update is lost.        *)
C26_NoLostUpdate ==
    [][\A i \in 1..Len(pending) :
          (pending[i].op \in StoreOps /\ Resolves(i, pending[i].op)) =>
              /\ KeepsStored(i)
              /\ Succeeds(i, pending[i].op) => Written(i)]_vars

(* C26 witness: an updatePatientDetails and a bookAppointment made after   *)
(* the login, both in flight over the same second, have both returned      *)
(* true and both writes are in the store.                                  *)
C26_Witness ==
    /\ now = StartNow + 2 * Quantum
    /\ ret.op = "bookAppointment" /\ ~ret.threw /\ ret.value = TRUE
    /\ users[DefaultMobile].details = "Guna R"
    /\ Len(users[DefaultMobile].appointments) = 2
    /\ users[DefaultMobile].appointments[2].bookedAt = now - BookAppointmentDelay

MarkerStored(u, session) == session = NoUser \/ session \in DOMAIN u

(* C28: before and after every step the session marker is absent or a key  *)
(* of the users mapping; no step takes a key out of the mapping; the       *)
(* marker moves to a number only in the step in which a login with that    *)
(* number and its stored password returns true, or a createAccount for it  *)
(* returns true with the new user stored; and the step in which a login    *)
(* returns false leaves the marker as it was.                              *)
C28_SessionNamesStoredUser ==
    [][ /\ MarkerStored(users, sessionUser) /\ MarkerStored(users', sessionUser')
        /\ DOMAIN users \subseteq DOMAIN users'
        /\ sessionUser' # sessionUser /\ sessionUser' # NoUser =>
              \E i \in 1..Len(pending) :
                 \/ /\ Succeeds(i, "login")
                    /\ sessionUser' = pending[i].arg.mobileNumber
                    /\ sessionUser' \in DOMAIN users
                    /\ users[sessionUser'].password = pending[i].arg.password
                 \/ /\ Succeeds(i, "createAccount")
                    /\ sessionUser' = pending[i].arg.mobileNumber
                    /\ users'[sessionUser'] = newUser(pending[i].arg)
        /\ \A i \in 1..Len(pending) :
              Resolves(i, "login") /\ ret'.op = "login" /\ ret'.value = FALSE
                 => sessionUser' = sessionUser ]_vars

(* C28 witness: the user of a created account is the current user and a    *)
(* login with a wrong password has just returned false.                    *)
C28_Witness ==
    /\ sessionUser = OtherMobile /\ OtherMobile \in DOMAIN users
    /\ ret.op = "login" /\ ret.value = FALSE /\ ret.arg.mobileNumber = DefaultMobile

(* C29: the step in which a createAccount returns keeps every stored user  *)
(* as it was; for a number that is a key of the mapping it returns false   *)
(* and leaves the mapping and the session marker unchanged; for a number   *)
(* that is not, it returns true, the record stored is the one built from   *)
(* the call's own data, and every other createAccount in flight for the    *)
(* number returns false against the store it leaves: of two overlapping    *)
(* calls for one number exactly one succeeds.                              *)
C29_CreateAccountNeverOverwrites ==
    [][ \A i \in 1..Len(pending) :
          Resolves(i, "createAccount") /\ ret'.op = "createAccount" =>
             LET m == pending[i].arg.mobileNumber
             IN  /\ \A k \in DOMAIN users : k \in DOMAIN users' /\ users'[k] = users[k]
                 /\ m \in DOMAIN users =>
                       /\ ret'.value = FALSE
                       /\ users' = users /\ sessionUser' = sessionUser
                 /\ m \notin DOMAIN users =>
                       /\ ret'.value = TRUE
                       /\ DOMAIN users' = DOMAIN users \cup {m}
                       /\ users'[m] = newUser(pending[i].arg)
                       /\ sessionUser' = m
                       /\ \A j \in 1..Len(pending) :
                             /\ j # i /\ pending[j].op = "createAccount"
                             /\ pending[j].arg.mobileNumber = m
                             => LET r == createAccount(users', sessionUser', pending[j].arg)
                                IN  ~r.success /\ r.users = users' ]_vars

(* C29 witness: two createAccount calls for one number were started at the *)
(* same instant; the one with the name Asha has stored its user and the    *)
(* one with the name Ravi has just returned false.                         *)
C29_Witness ==
    /\ now = StartNow + 2 * Quantum
    /\ ret.op = "createAccount" /\ ret.value = FALSE
    /\ ret.arg.mobileNumber = OtherMobile /\ ret.arg.name = "Ravi"
    /\ OtherMobile \in DOMAIN users /\ users[OtherMobile].details = "Asha"

----------------------------------------------------------------------------
(* Properties of the stored appointments, checked under SpecFlows *)

Reschedules ==
    /\ reminderAppointment # <<>> /\ reminderAppointment' = <<>>
    /\ currentPage # "Schedule" /\ currentPage' = "Schedule"

(* The step stores a new appointment for user m. *)
Books(m) == Len(users'[m].appointments) > Len(users[m].appointments)

(* C22: Reschedule leaves the stored users mapping as it is (the reminded  *)
(* appointment stays, 'upcoming' as the check found it); it sets the       *)
(* marker, moves to the Schedule page and clears the reminder, and does    *)
(* nothing else.  A booking stored later adds one record at the end and    *)
(* leaves every record stored before it, the reminded one included, as it  *)
(* was.                                                                    *)
C22_RescheduleLeavesStore ==
    /\ [][Reschedules =>
             /\ users' = users
             /\ \E k \in 1..Len(users[sessionUser].appointments) :
                   /\ users[sessionUser].appointments[k].id = reminderAppointment[1].id
                   /\ users'[sessionUser].appointments[k].status = "upcoming"
             /\ reminded' = reminded \cup {reminderAppointment[1].id}
             /\ previousPage' = currentPage
             /\ UNCHANGED <<sessionUser, now, authStatus, currentUser, notifications,
                            isLoading, chatbot>>]_vars
    /\ [][\A m \in DOMAIN users : Books(m) =>
             /\ Len(users'[m].appointments) = Len(users[m].appointments) + 1
             /\ \A k \in 1..Len(users[m].appointments) :
                   users'[m].appointments[k] = users[m].appointments[k]]_vars

(* C22 witness: the stored appointment was rescheduled (marked, still      *)
(* 'upcoming') and a second appointment has been booked since.             *)
C22_Witness ==
    /\ Len(users[DefaultMobile].appointments) = 2
    /\ users[DefaultMobile].appointments[1].id \in reminded
    /\ users[DefaultMobile].appointments[1].status = "upcoming"
    /\ users[DefaultMobile].appointments[2].id >= StartNow
    /\ currentPage = "History" /\ reminderAppointment = <<>>

----------------------------------------------------------------------------
(* Properties of the chatbot, checked under SpecChat *)

(* The step is the rejection of the request the Chatbot awaits. *)
SendFails == chatbot.request = "pending" /\ ret'.op = "sendMessage" /\ ret'.threw

(* C18: a send that fails appends exactly one fallback message, right      *)
(* after the user's message, sends no request again and sets isLoading to  *)
(* false; while isLoading is true or there is no chat session, no step     *)
(* sends a request, and sendMessage would send none whatever the text      *)
(* field holds; isLoading is true exactly while a request is in flight.    *)
C18_SendFailureFallback ==
    /\ [][SendFails =>
             /\ chatbot'.messages = Append(chatbot.messages, SendFailedMessage)
             /\ chatbot.messages[Len(chatbot.messages)].role = "user"
             /\ chatbot'.isLoading = FALSE
             /\ chatbot'.request = "none"
             /\ chatbot'.sent = chatbot.sent]_vars
    /\ [][(chatbot.isLoading \/ chatbot.chat = "null") =>
             chatbot'.sent <= chatbot.sent]_vars
    /\ [](chatbot.isLoading \/ chatbot.chat = "null" =>
             \A value \in Inputs : ~canSend([chatbot EXCEPT !.input = value]))
    /\ [](chatbot.isLoading <=> chatbot.request = "pending")

(* A send has just failed: the transcript is the user's message and the    *)
(* fallback, the Chatbot is idle again and has sent one request.           *)
C18_Witness ==
    /\ ret.op = "sendMessage" /\ ret.threw
    /\ chatbot.messages = <<[role |-> "user", text |-> "hi"], SendFailedMessage>>
    /\ ~chatbot.isLoading /\ chatbot.sent = 1

----------------------------------------------------------------------------
(* Properties of the App's reminder flow, checked under Spec *)

UserAppointments == IF sessionUser \in DOMAIN users THEN users[sessionUser].appointments ELSE <<>>

(* The spec's filter: upcoming, dated strictly after now, not marked. *)
Eligible(a) ==
    /\ a.status = "upcoming"
    /\ a.date # NoDate /\ a.date * MsPerDay > now
    /\ a.id \notin reminded


NumChecks(p) == Cardinality({k \in 1..Len(p) : p[k].op = "getAppointments" /\ p[k].caller = "App"})

(* The step displays a reminder. *)
Displays == reminderAppointment' # <<>> /\ reminderAppointment' # reminderAppointment
(* The step runs the reminder check (a reload only drops it). *)
CheckRuns == NumChecks(pending') < NumChecks(pending) /\ authStatus' = "loggedIn"

(* C1: the appointment a reminder check selects is one of the current      *)
(* user's, has status 'upcoming', a date strictly after the now of the     *)
(* check and no reminded marker; a check displays one appointment.         *)
C1_ReminderSelection ==
    [][Displays =>
          /\ Len(reminderAppointment') = 1
          /\ \E k \in 1..Len(UserAppointments) : UserAppointments[k] = reminderAppointment'[1]
          /\ Eligible(reminderAppointment'[1])]_vars

(* C1 witness: the first appointment is displayed while the second, also   *)
(* 'upcoming', has a date that is not after now.                           *)
C1_Witness ==
    /\ Len(UserAppointments) = 2
    /\ reminderAppointment = <<UserAppointments[1]>>
    /\ UserAppointments[2].status = "upcoming"
    /\ UserAppointments[2].date * MsPerDay <= now

(* C2: each resolution (confirm, reschedule, dismiss) leaves the reminded  *)
(* appointment's marker set, no step removes a marker, and no check        *)
(* displays an appointment whose marker is set: a resolved appointment is  *)
(* never selected again while the session's markers last.                  *)
C2_ResolvedNeverSelected ==
    /\ [][(reminderAppointment # <<>> /\ reminderAppointment' = <<>> /\ authStatus' = "loggedIn")
             => reminderAppointment[1].id \in reminded']_vars
    /\ [][reminded \subseteq reminded']_vars
    /\ [][Displays => reminderAppointment'[1].id \notin reminded]_vars

(* C2 witness: a later login's check is due while an appointment that was  *)
(* resolved earlier in the session would otherwise pass the filter.        *)
C2_Witness ==
    /\ \E i \in 1..Len(pending) : pending[i].op = "getAppointments" /\ CanFire(i)
    /\ \E k \in 1..Len(UserAppointments) :
          /\ UserAppointments[k].id \in reminded
          /\ UserAppointments[k].status = "upcoming"
          /\ UserAppointments[k].date * MsPerDay > now

(* C6: when the confirm flow's updateAppointmentStatus does not find the   *)
(* appointment in the current user's collection, no 'Appointment           *)
(* Confirmed!' notification is pushed.                                     *)
C6_ConfirmNotFoundNotReported ==
    [][\A i \in 1..Len(pending) :
          (/\ pending[i].op = "updateAppointmentStatus" /\ pending[i].caller = "App"
           /\ Consumes(i)
           /\ pending[i].arg.id \notin Ids(UserAppointments)) =>
              ~ \E n \in Instants :
                  notifications' = Append(notifications,
                                          [id |-> n, message |-> "Appointment Confirmed!"])]_vars

(* The user has just confirmed the reminder of appointment id (the timer   *)
(* of the call has not started to run down), and the appointment is in the *)
(* current user's collection.                                              *)
ConfirmStarted(id) ==
    /\ id \in Ids(UserAppointments)
    /\ \E i \in 1..Len(pending) :
          /\ pending[i].op = "updateAppointmentStatus" /\ pending[i].caller = "App"
          /\ pending[i].arg.id = id /\ pending[i].left = UpdateAppointmentStatusDelay

StoredStatus(id, status) ==
    \E m \in DOMAIN users : \E k \in 1..Len(users[m].appointments) :
        users[m].appointments[k].id = id /\ users[m].appointments[k].status = status

(* The step moves some stored appointment from 'upcoming' to 'confirmed'. *)
BecomesConfirmed ==
    \E m \in DOMAIN users : \E k \in 1..Len(users[m].appointments) :
        /\ users[m].appointments[k].status = "upcoming"
        /\ k <= Len(users'[m].appointments)
        /\ users'[m].appointments[k].status = "confirmed"

(* C17: once the user has confirmed a displayed reminder whose appointment *)
(* is in the current user's collection, the appointment's stored status    *)
(* eventually is 'confirmed'; and only the confirm flow's                  *)
(* updateAppointmentStatus moves an appointment from 'upcoming' to         *)
(* 'confirmed'.                                                            *)
C17_ConfirmLeadsToConfirmed ==
    /\ \A id \in {PastInstant(k) : k \in 1..MaxAppointments} :
          ConfirmStarted(id) ~> StoredStatus(id, "confirmed")
    /\ [][BecomesConfirmed =>
             \E i \in 1..Len(pending) :
                 /\ pending[i].op = "updateAppointmentStatus" /\ pending[i].caller = "App"
                 /\ Consumes(i)]_vars

(* The step is a resolution: it clears the displayed reminder and the App  *)
(* stays loaded.                                                           *)
ResolvesReminder ==
    reminderAppointment # <<>> /\ reminderAppointment' = <<>> /\ authStatus' = "loggedIn"

(* C19: every resolution leaves the marker of the appointment it clears    *)
(* set, there is no state between the clearing and the marking; when the   *)
(* confirm flow's updateAppointmentStatus comes back (the page is still    *)
(* loaded) the marker of its                                               *)
(* appointment is set and the reminder cleared even if the update found    *)
(* nothing; and an appointment whose marker is set is never on display.    *)
C19_MarkedBeforeCleared ==
    /\ [][ResolvesReminder => reminderAppointment[1].id \in reminded']_vars
    /\ [][\A i \in 1..Len(pending) :
             (/\ pending[i].op = "updateAppointmentStatus" /\ pending[i].caller = "App"
              /\ pending[i].left = 0 /\ Consumes(i) /\ authStatus' = "loggedIn")
                 => /\ pending[i].arg.id \in reminded'
                    /\ reminderAppointment' = <<>>]_vars
    /\ [](reminderAppointment # <<>> => reminderAppointment[1].id \notin reminded)

(* C19 witness: a confirm flow has come back in this page load (its toast  *)
(* is shown) although no stored appointment is 'confirmed': the update     *)
(* found nothing, and the appointment is marked, still 'upcoming'.         *)
C19_Witness ==
    /\ reminderAppointment = <<>>
    /\ \E n \in 1..Len(notifications) : notifications[n].message = "Appointment Confirmed!"
    /\ \A m \in DOMAIN users : \A k \in 1..Len(users[m].appointments) :
          users[m].appointments[k].status # "confirmed"
    /\ \E m \in DOMAIN users : \E k \in 1..Len(users[m].appointments) :
          /\ users[m].appointments[k].id \in reminded
          /\ users[m].appointments[k].status = "upcoming"

(* The spec's filter with an absent status read as 'upcoming'. *)
EligibleAbsentAsUpcoming(a) ==
    /\ a.status \in {"upcoming", NoStatus}
    /\ a.date # NoDate /\ a.date * MsPerDay > now
    /\ a.id \notin reminded

C9_FirstInListOrder ==
    [][CheckRuns =>
          /\ \A k \in 1..Len(UserAppointments) :
                (/\ Eligible(UserAppointments[k])
                 /\ \A j \in 1..(k - 1) : ~Eligible(UserAppointments[j]))
                    => reminderAppointment' = <<UserAppointments[k]>>
          /\ (\A k \in 1..Len(UserAppointments) : ~Eligible(UserAppointments[k]))
                    => reminderAppointment' = reminderAppointment]_vars

(* C9 witness: two upcoming appointments with future dates; the first was  *)
(* resolved earlier in the session, and a later check displays the second, *)
(* whose date is the earlier one.                                          *)
C9_Witness ==
    /\ Len(UserAppointments) = 2
    /\ reminderAppointment = <<UserAppointments[2]>>
    /\ UserAppointments[1].id \in reminded
    /\ UserAppointments[1].status = "upcoming"
    /\ UserAppointments[1].date * MsPerDay > now
    /\ UserAppointments[2].date <= UserAppointments[1].date

====
